---- MODULE Spec2Model ----
(***************************************************************************)
(* Model of the transaction explorer: the filter/aggregation server of     *)
(* src/app.py (one reactive calc, four value boxes, six summary tables and *)
(* the raw-row grid per session, over one shared DataFrame DF) and the     *)
(* dataset generator of src/generate_dataset.py.                           *)
(*                                                                         *)
(* Money is held in integer cents.  The "${:,.2f}" formatting of a float   *)
(* sum of cent-valued totals yields exactly that number of cents, so a     *)
(* formatted revenue is modelled by the integer sum; a formatted mean is   *)
(* the mean rounded to the cent.                                           *)
(***************************************************************************)
EXTENDS Integers, Sequences, FiniteSets

VARIABLES
    DF,         \* the module-level DataFrame of app.py (rows in file order)
    tieOrder,   \* how this build's default sort orders equal keys
    sessions,   \* the sessions server() has been called for
    input,      \* input[s]: the session's input values
    calc,       \* calc[s]: the session's reactive calc filtered_df
    out,        \* out[s][o]: <<v>> the rendered output, <<>> invalidated
    runs,       \* runs[s]: executions of filtered_df's body since the last
                \* change of a filter input of s
    reads,      \* reads[s]: calls of filtered_df() since that change
    pc,         \* generator: position in main()
    num_rows,   \* generator: args.rows
    fs,         \* generator: what exists on disk
    draws,      \* generator: random values drawn so far
    row,        \* generator: financial fields of the row being computed
    exit_code   \* generator: process exit status once pc = "exited"

vars == <<DF, tieOrder, sessions, input, calc, out, runs, reads,
          pc, num_rows, fs, draws, row, exit_code>>

appVars == <<DF, tieOrder, sessions, input, calc, out, runs, reads>>
genVars == <<pc, num_rows, fs, draws, row, exit_code>>

(***************************************************************************)
(* Bounds of the model.                                                    *)
(***************************************************************************)
NumSessions == 2    \* sessions of the multi-session specification
MaxRuns == 2        \* runs[s] saturates here
MaxReads == 12      \* reads[s] saturates here
MaxGenRows == 2     \* largest --rows value tried

(***************************************************************************)
(* Arithmetic helpers.                                                     *)
(***************************************************************************)
Min(a, b) == IF a <= b THEN a ELSE b

Abs(x) == IF x < 0 THEN 0 - x ELSE x

\* Exact round-half-to-even of n/d (n >= 0, d > 0): what "{:.2f}".format
\* does to a value that is exactly representable at the tie.
RoundHalfEven(n, d) ==
    LET q == n \div d
        r == n % d
    IN  IF 2 * r < d THEN q
        ELSE IF 2 * r > d THEN q + 1
        ELSE IF q % 2 = 0 THEN q ELSE q + 1

RECURSIVE SumOver(_, _)
SumOver(s, col) ==
    IF s = <<>> THEN 0 ELSE s[1][col] + SumOver(Tail(s), col)

\* Lexicographic order of the strings used as keys (pandas sorts group keys).
Alphabetical ==
    <<"Books", "Cancelled", "Completed", "Credit Card", "Electronics",
      "Midwest", "Northeast", "PayPal", "Pending">>

\* Position of a group key in the ascending order of its column.
KeyRank(col, k) ==
    IF col = "date" THEN k
    ELSE CHOOSE i \in 1..Len(Alphabetical) : Alphabetical[i] = k

(***************************************************************************)
(* The CSV files the application is started on.  Timestamps are seconds    *)
(* since the start of the generator's window; money is in cents.  Only     *)
(* the columns app.py reads are kept.                                      *)
(***************************************************************************)
CsvRow(id, ts, cust, cat, price, total, pay, reg, st) ==
    [transaction_id |-> id, timestamp |-> ts, customer_id |-> cust,
     category |-> cat, unit_price |-> price, total |-> total,
     payment_method |-> pay, region |-> reg, status |-> st]

\* Three days, not in date order; days 0 and 1 have equal revenue.
CsvRich ==
    << CsvRow(1, 100000, 10001, "Electronics", 2500, 3000, "PayPal",
              "Midwest", "Completed"),
       CsvRow(2, 3600, 10002, "Books", 999, 1000, "Credit Card",
              "Northeast", "Completed"),
       CsvRow(3, 180000, 10001, "Books", 1500, 1500, "PayPal",
              "Northeast", "Pending"),
       CsvRow(4, 86399, 10003, "Electronics", 450, 2000, "Credit Card",
              "Midwest", "Pending"),
       CsvRow(5, 259199, 10002, "Electronics", 700, 1700, "Credit Card",
              "Northeast", "Completed") >>

\* Eleven days, one more than the top-days cap, not in date order; days 5
\* and 9 tie for the lowest revenue, days 0, 2 and 4 tie as well.
CsvLong ==
    << CsvRow(1, 3 * 86400 + 10, 10001, "Books", 900, 900, "PayPal",
              "Midwest", "Completed"),
       CsvRow(2, 10 * 86400 + 7, 10002, "Books", 500, 1000, "PayPal",
              "Midwest", "Completed"),
       CsvRow(3, 0 * 86400 + 99, 10003, "Books", 250, 500, "PayPal",
              "Midwest", "Completed"),
       CsvRow(4, 9 * 86400 + 5, 10001, "Books", 300, 300, "PayPal",
              "Midwest", "Completed"),
       CsvRow(5, 4 * 86400 + 1, 10004, "Books", 150, 300, "PayPal",
              "Midwest", "Completed"),
       CsvRow(6, 1 * 86400 + 2, 10002, "Books", 700, 700, "PayPal",
              "Midwest", "Completed"),
       CsvRow(7, 6 * 86400 + 3, 10005, "Books", 400, 800, "PayPal",
              "Midwest", "Completed"),
       CsvRow(8, 5 * 86400 + 4, 10003, "Books", 100, 300, "PayPal",
              "Midwest", "Completed"),
       CsvRow(9, 2 * 86400 + 86399, 10006, "Books", 500, 500, "PayPal",
              "Midwest", "Completed"),
       CsvRow(10, 7 * 86400, 10001, "Books", 600, 600, "PayPal",
              "Midwest", "Completed"),
       CsvRow(11, 4 * 86400 + 50, 10002, "Books", 200, 200, "PayPal",
              "Midwest", "Completed"),
       CsvRow(12, 8 * 86400 + 8, 10007, "Books", 400, 400, "PayPal",
              "Midwest", "Completed") >>

\* One day, one value in every filtered column.
CsvTiny ==
    << CsvRow(1, 50, 10001, "Books", 999, 1000, "PayPal", "Midwest",
              "Completed"),
       CsvRow(2, 20, 10002, "Books", 450, 2000, "PayPal", "Midwest",
              "Completed") >>

(***************************************************************************)
(* load_data and the module-level constants of app.py.                     *)
(***************************************************************************)
\* df["date"] = df["timestamp"].dt.date
load_data(csv) ==
    [i \in 1..Len(csv) |->
        [transaction_id |-> csv[i].transaction_id,
         timestamp |-> csv[i].timestamp,
         customer_id |-> csv[i].customer_id,
         category |-> csv[i].category,
         unit_price |-> csv[i].unit_price,
         total |-> csv[i].total,
         payment_method |-> csv[i].payment_method,
         region |-> csv[i].region,
         status |-> csv[i].status,
         date |-> csv[i].timestamp \div 86400]]

Column(df, col) == {df[i][col] : i \in 1..Len(df)}

ALL_CATEGORIES == Column(DF, "category")
ALL_REGIONS == Column(DF, "region")
ALL_STATUSES == Column(DF, "status")
MIN_DATE == CHOOSE d \in Column(DF, "date") : \A e \in Column(DF, "date") : d <= e
MAX_DATE == CHOOSE d \in Column(DF, "date") : \A e \in Column(DF, "date") : d >= e

\* The slider: min=100, max=5000, step=100; two of its positions are tried.
TableRowsChoices == {100, 500}

InputIds == {"date_range", "categories", "regions", "statuses", "table_rows"}

Choices(id) ==
    CASE id = "date_range" -> (MIN_DATE..MAX_DATE) \X (MIN_DATE..MAX_DATE)
      [] id = "categories" -> SUBSET ALL_CATEGORIES
      [] id = "regions" -> SUBSET ALL_REGIONS
      [] id = "statuses" -> SUBSET ALL_STATUSES
      [] id = "table_rows" -> TableRowsChoices

\* The values the UI starts every session with.
InitialInput ==
    [date_range |-> <<MIN_DATE, MAX_DATE>>, categories |-> ALL_CATEGORIES,
     regions |-> ALL_REGIONS, statuses |-> ALL_STATUSES, table_rows |-> 500]

(***************************************************************************)
(* filtered_df: the mask and DF.loc[mask].                                 *)
(***************************************************************************)
\* Faulty variant: an empty selection read as "no filter on this column".
IsInOrAll(v, selected) == selected = {} \/ v \in selected

\* isin over a selection
IsIn(v, selected) == v \in selected

\* Faulty variant: the end of the date range taken as exclusive.
MaskExclusiveEnd(df, inp) ==
    [i \in 1..Len(df) |->
        /\ df[i].date >= inp.date_range[1]
        /\ df[i].date < inp.date_range[2]
        /\ IsIn(df[i].category, inp.categories)
        /\ IsIn(df[i].region, inp.regions)
        /\ IsIn(df[i].status, inp.statuses)]

Mask(df, inp) ==
    [i \in 1..Len(df) |->
        /\ df[i].date >= inp.date_range[1]
        /\ df[i].date <= inp.date_range[2]
        /\ IsIn(df[i].category, inp.categories)
        /\ IsIn(df[i].region, inp.regions)
        /\ IsIn(df[i].status, inp.statuses)]

RECURSIVE Loc(_, _, _)
\* df.loc[mask]: the rows whose mask entry is set, in df's order
Loc(df, mask, i) ==
    IF i > Len(df) THEN <<>>
    ELSE (IF mask[i] THEN <<df[i]>> ELSE <<>>) \o Loc(df, mask, i + 1)

FilteredDf(df, inp) == Loc(df, Mask(df, inp), 1)

(***************************************************************************)
(* Aggregation: groupby(col).agg(...).reset_index().sort_values(...).      *)
(***************************************************************************)
RECURSIVE SortedKeys(_, _)
\* groupby sorts the group keys ascending
SortedKeys(col, keys) ==
    IF keys = {} THEN <<>>
    ELSE LET k == CHOOSE x \in keys :
                    \A y \in keys : KeyRank(col, x) <= KeyRank(col, y)
         IN  <<k>> \o SortedKeys(col, keys \ {k})

RowsOf(df, col, k) == SelectSeq(df, LAMBDA r : r[col] = k)

\* mean of a column: NaN (<<>>) over no rows, else <<the mean in cents>>
Mean(df, col) ==
    IF Len(df) = 0 THEN <<>>
    ELSE <<RoundHalfEven(SumOver(df, col), Len(df))>>

\* df.groupby(col).agg(count, sum of total, mean of meancol).reset_index():
\* one row per distinct key, keys ascending
GroupBy(df, col, meancol) ==
    LET ks == SortedKeys(col, Column(df, col))
    IN  [i \in 1..Len(ks) |->
            LET g == RowsOf(df, col, ks[i])
            IN  [key |-> ks[i], count |-> Len(g),
                 revenue |-> SumOver(g, "total"),
                 mean |-> Mean(g, meancol)]]

RECURSIVE SortValues(_, _)
\* frame.sort_values(by, ascending=False) with the default kind="quicksort":
\* descending in `by`; the order of rows with equal `by` is whatever the
\* build's unstable sort leaves.  tieOrder = "asc" is the order a stable
\* sort leaves (the frame's own order), "desc" the reverse of it.
SortValues(frame, by) ==
    IF frame = <<>> THEN <<>>
    ELSE LET n == Len(frame)
             top == {i \in 1..n : \A j \in 1..n : frame[i][by] >= frame[j][by]}
             pick == IF tieOrder = "asc"
                     THEN CHOOSE i \in top : \A j \in top : i <= j
                     ELSE CHOOSE i \in top : \A j \in top : i >= j
             rest == [j \in 1..(n - 1) |->
                         IF j < pick THEN frame[j] ELSE frame[j + 1]]
         IN  <<frame[pick]>> \o SortValues(rest, by)

\* frame.head(n)
HeadRows(frame, n) == SubSeq(frame, 1, Min(n, Len(frame)))

(***************************************************************************)
(* The value boxes.                                                        *)
(***************************************************************************)
n_transactions(df) == Len(df)

\* Faulty variant: the sum of another money column.
total_revenue_unit_price(df) == SumOver(df, "unit_price")

total_revenue(df) == SumOver(df, "total")

\* Faulty variant: the mean taken without the guard, NaN on an empty subset.
avg_order_unguarded(df) == Mean(df, "total")

\* avg = df["total"].mean() if len(df) > 0 else 0
avg_order(df) == IF Len(df) > 0 THEN Mean(df, "total") ELSE <<0>>

n_customers(df) == Cardinality(Column(df, "customer_id"))

(***************************************************************************)
(* The six summary tables.  Each returns pd.DataFrame() on an empty        *)
(* subset.                                                                 *)
(***************************************************************************)
DailyLimit == 20
TopDaysLimit == 10

daily_revenue_table(df) ==
    IF df = <<>> THEN <<>>
    ELSE LET daily == HeadRows(SortValues(GroupBy(df, "date", "total"), "key"),
                           DailyLimit)
         IN  [i \in 1..Len(daily) |->
                [Date |-> daily[i].key, Transactions |-> daily[i].count,
                 Revenue |-> daily[i].revenue]]

category_summary_table(df) ==
    IF df = <<>> THEN <<>>
    ELSE LET cat == SortValues(GroupBy(df, "category", "unit_price"), "revenue")
         IN  [i \in 1..Len(cat) |->
                [Category |-> cat[i].key, Transactions |-> cat[i].count,
                 Revenue |-> cat[i].revenue, AvgUnitPrice |-> cat[i].mean]]

region_table(df) ==
    IF df = <<>> THEN <<>>
    ELSE LET reg == SortValues(GroupBy(df, "region", "total"), "revenue")
         IN  [i \in 1..Len(reg) |->
                [Region |-> reg[i].key, Transactions |-> reg[i].count,
                 Revenue |-> reg[i].revenue, AvgOrder |-> reg[i].mean]]

payment_table(df) ==
    IF df = <<>> THEN <<>>
    ELSE LET pay == SortValues(GroupBy(df, "payment_method", "total"), "revenue")
         IN  [i \in 1..Len(pay) |->
                [PaymentMethod |-> pay[i].key, Transactions |-> pay[i].count,
                 Revenue |-> pay[i].revenue]]

top_days_table(df) ==
    IF df = <<>> THEN <<>>
    ELSE LET top == HeadRows(SortValues(GroupBy(df, "date", "total"), "revenue"),
                         TopDaysLimit)
         IN  [i \in 1..Len(top) |->
                [Date |-> top[i].key, Transactions |-> top[i].count,
                 Revenue |-> top[i].revenue]]

\* pct = count / total * 100 formatted "{:.1f}%": tenths of a percent
status_table(df) ==
    IF df = <<>> THEN <<>>
    ELSE LET st == SortValues(GroupBy(df, "status", "total"), "count")
             total == SumOver(st, "count")
         IN  [i \in 1..Len(st) |->
                [Status |-> st[i].key, Count |-> st[i].count,
                 Revenue |-> st[i].revenue,
                 Pct |-> RoundHalfEven(st[i].count * 1000, total)]]

\* filtered_df().head(input.table_rows())
transactions_grid(df, inp) == HeadRows(df, inp.table_rows)

Metrics == {"n_transactions", "total_revenue", "avg_order", "n_customers"}

Views == {"daily_revenue_table", "category_summary_table", "region_table",
          "payment_table", "top_days_table", "status_table"}

Outputs == Metrics \cup Views \cup {"transactions_grid"}

\* What output o's render function returns when filtered_df() returns df.
Render(o, df, inp) ==
    CASE o = "n_transactions" -> n_transactions(df)
      [] o = "total_revenue" -> total_revenue(df)
      [] o = "avg_order" -> avg_order(df)
      [] o = "n_customers" -> n_customers(df)
      [] o = "daily_revenue_table" -> daily_revenue_table(df)
      [] o = "category_summary_table" -> category_summary_table(df)
      [] o = "region_table" -> region_table(df)
      [] o = "payment_table" -> payment_table(df)
      [] o = "top_days_table" -> top_days_table(df)
      [] o = "status_table" -> status_table(df)
      [] o = "transactions_grid" -> transactions_grid(df, inp)

(***************************************************************************)
(* The reactive graph of one session (server, called once per session).    *)
(***************************************************************************)
\* Faulty variant: the status selection read without a reactive dependency.
CalcDepsNoStatuses == {"date_range", "categories", "regions"}

\* The inputs filtered_df reads, hence the inputs whose change invalidates it.
CalcDeps == {"date_range", "categories", "regions", "statuses"}

\* The inputs an output's render function reads itself.
OutputDeps(o) == IF o = "transactions_grid" THEN {"table_rows"} ELSE {}

\* Faulty variant: one input object shared by every session.
InputScopeShared(s) == sessions

\* server(input, output, session): the input object a session's handlers
\* read and write is that session's own.
InputScope(s) == {s}

\* Faulty variant: filtered_df as a plain function, run on every call.
CalcNeverHit(c) == FALSE

\* @reactive.calc: a read returns the cached value unless invalidated.
CalcHit(c) == c.valid

Invalidated == [valid |-> FALSE, value |-> <<>>]

\* An input of session s receives a new value.  Setting an input to the
\* value it has changes nothing.  Every calc and output that read the input,
\* directly or through filtered_df, is invalidated at once.
SetInput(s, id, v) ==
    /\ pc = "app"
    /\ v # input[s][id]
    /\ input' = [t \in sessions |->
                    IF t \in InputScope(s) THEN [input[t] EXCEPT ![id] = v]
                    ELSE input[t]]
    /\ calc' = [t \in sessions |->
                    IF t \in InputScope(s) /\ id \in CalcDeps
                    THEN Invalidated ELSE calc[t]]
    /\ out' = [t \in sessions |-> [o \in Outputs |->
                    IF t \in InputScope(s)
                       /\ (id \in CalcDeps \/ id \in OutputDeps(o))
                    THEN <<>> ELSE out[t][o]]]
    /\ runs' = [t \in sessions |->
                    IF t \in InputScope(s) /\ id \in CalcDeps
                    THEN 0 ELSE runs[t]]
    /\ reads' = [t \in sessions |->
                    IF t \in InputScope(s) /\ id \in CalcDeps
                    THEN 0 ELSE reads[t]]
    /\ UNCHANGED <<DF, tieOrder, sessions, genVars>>

\* The session's flush: every invalidated output is rendered again, each
\* render reading filtered_df(); the first read of an invalidated calc runs
\* its body and caches the result.
Flush(s) ==
    /\ pc = "app"
    /\ \E o \in Outputs : out[s][o] = <<>>
    /\ LET pending == {o \in Outputs : out[s][o] = <<>>}
           hit == CalcHit(calc[s])
           df == IF hit THEN calc[s].value ELSE FilteredDf(DF, input[s])
           after == [valid |-> TRUE, value |-> df]
           executed == (IF hit THEN 0 ELSE 1)
                       + (Cardinality(pending) - 1)
                         * (IF CalcHit(after) THEN 0 ELSE 1)
       IN  /\ calc' = [calc EXCEPT ![s] = after]
           /\ out' = [out EXCEPT ![s] = [o \in Outputs |->
                        IF o \in pending THEN <<Render(o, df, input[s])>>
                        ELSE out[s][o]]]
           /\ runs' = [runs EXCEPT ![s] = Min(runs[s] + executed, MaxRuns)]
           /\ reads' = [reads EXCEPT ![s] =
                            Min(reads[s] + Cardinality(pending), MaxReads)]
    /\ UNCHANGED <<DF, tieOrder, sessions, input, genVars>>

\* The generator is a separate program: it does not run beside the server.
GenIdle ==
    /\ pc = "app"
    /\ num_rows = 0
    /\ fs = {}
    /\ draws = 0
    /\ row = <<>>
    /\ exit_code = 0

AppIdle ==
    /\ DF = <<>>
    /\ tieOrder = "asc"
    /\ sessions = {}
    /\ input = <<>>
    /\ calc = <<>>
    /\ out = <<>>
    /\ runs = <<>>
    /\ reads = <<>>

\* A session starts with the UI's initial selections and nothing rendered.
InitApp(csv, ss) ==
    /\ DF = load_data(csv)
    /\ tieOrder \in {"asc", "desc"}
    /\ sessions = ss
    /\ input = [s \in ss |-> InitialInput]
    /\ calc = [s \in ss |-> Invalidated]
    /\ out = [s \in ss |-> [o \in Outputs |-> <<>>]]
    /\ runs = [s \in ss |-> 0]
    /\ reads = [s \in ss |-> 0]
    /\ GenIdle

Init == \E csv \in {CsvRich, CsvTiny} : InitApp(csv, {1})

InitLong == InitApp(CsvLong, {1})

InitMulti == InitApp(CsvTiny, 1..NumSessions)

Next ==
    \/ \E s \in sessions, id \in InputIds : \E v \in Choices(id) : SetInput(s, id, v)
    \/ \E s \in sessions : Flush(s)

Spec == Init /\ [][Next]_vars

\* One session over the table with more days than the top-days cap.
SpecLong == InitLong /\ [][Next]_vars

\* Several sessions on one server process; their users work the filters.
NextMulti ==
    \/ \E s \in sessions, id \in CalcDeps : \E v \in Choices(id) : SetInput(s, id, v)
    \/ \E s \in sessions : Flush(s)

SpecMulti == InitMulti /\ [][NextMulti]_vars

(***************************************************************************)
(* Properties.                                                             *)
(***************************************************************************)
\* The four predicates of a filter specification, on one row.
Matches(r, inp) ==
    /\ inp.date_range[1] <= r.date
    /\ r.date <= inp.date_range[2]
    /\ r.category \in inp.categories
    /\ r.region \in inp.regions
    /\ r.status \in inp.statuses

FilterSpecOf(inp) ==
    <<inp.date_range, inp.categories, inp.regions, inp.statuses>>

PositionIn(df, r) == CHOOSE i \in 1..Len(df) : df[i] = r

Rendered(s, o) == out[s][o] # <<>>

AllRendered(s) == \A o \in Outputs : Rendered(s, o)

\* C1: the filtered subset holds exactly the rows of the base table that
\* satisfy the four predicates (date bounds inclusive), none missing, none
\* extra, in the base table's order.
C1_FilterExact ==
    \A s \in sessions :
        calc[s].valid =>
            LET sub == calc[s].value
            IN  /\ \A i \in 1..Len(DF) :
                      Matches(DF[i], input[s])
                          <=> \E j \in 1..Len(sub) : sub[j] = DF[i]
                /\ \A j \in 1..Len(sub) : \E i \in 1..Len(DF) : DF[i] = sub[j]
                /\ \A j, k \in 1..Len(sub) :
                      j < k => PositionIn(DF, sub[j]) < PositionIn(DF, sub[k])

\* A subset that keeps rows on both bounds of a proper date range, drops
\* rows on every dimension and skips a row between two it keeps.
C1_Witness ==
    \E s \in sessions :
        /\ calc[s].valid
        /\ input[s].date_range[1] < input[s].date_range[2]
        /\ \E j, k \in 1..Len(calc[s].value) :
              /\ calc[s].value[j].date = input[s].date_range[1]
              /\ calc[s].value[k].date = input[s].date_range[2]
        /\ \E i \in 1..Len(DF) : DF[i].date > input[s].date_range[2]
        /\ input[s].categories # ALL_CATEGORIES
        /\ \E i, k, l \in 1..Len(DF) :
              /\ i < k /\ k < l
              /\ Matches(DF[i], input[s]) /\ Matches(DF[l], input[s])
              /\ ~Matches(DF[k], input[s])

OutputsCurrent(s) ==
    \A o \in Metrics \cup Views :
        Rendered(s, o) =>
            out[s][o] = <<Render(o, FilteredDf(DF, input[s]), input[s])>>

AllInvalidatedOnChange ==
    \A s \in sessions :
        FilterSpecOf(input'[s]) # FilterSpecOf(input[s]) =>
            /\ ~calc'[s].valid
            /\ \A o \in Metrics \cup Views : out'[s][o] = <<>>

\* C2: every metric or view a session shows is the one computed from its
\* current filter specification, and a change of any one filter dimension
\* invalidates the calc and all ten metrics and views in the same step.
C2_ReadsAreCurrent ==
    /\ [](\A s \in sessions : OutputsCurrent(s))
    /\ [][AllInvalidatedOnChange]_vars

\* Everything rendered again after each of the four dimensions was changed.
C2_Witness ==
    \E s \in sessions :
        /\ AllRendered(s)
        /\ input[s].date_range # InitialInput.date_range
        /\ input[s].categories # InitialInput.categories
        /\ input[s].regions # InitialInput.regions
        /\ input[s].statuses # InitialInput.statuses
        /\ out[s]["n_transactions"][1] > 0

FreshReadsReuseCache ==
    \A s \in sessions :
        (calc[s].valid /\ calc'[s].valid) =>
            /\ calc'[s] = calc[s]
            /\ runs'[s] = runs[s]
            /\ \A o \in Metrics \cup Views :
                  Rendered(s, o) => out'[s][o] = out[s][o]

\* C3: between two changes of the filter specification filtered_df's body
\* runs at most once, however often it is read; while Fresh a read leaves
\* the cached subset, the run count and the rendered views as they were.
C3_CachedWhileFresh ==
    /\ [](\A s \in sessions :
            /\ runs[s] <= 1
            /\ reads[s] >= 1 => (runs[s] = 1 /\ calc[s].valid))
    /\ [][FreshReadsReuseCache]_vars

\* A second round of reads (the grid, after the slider moved) while Fresh.
C3_Witness ==
    \E s \in sessions :
        /\ reads[s] > Cardinality(Outputs)
        /\ runs[s] = 1
        /\ AllRendered(s)
        /\ Len(calc[s].value) > 0

EmptyForm(o) ==
    CASE o \in Views -> <<>>
      [] o = "avg_order" -> <<0>>
      [] o \in {"n_transactions", "total_revenue", "n_customers"} -> 0

\* C4: an empty selection on any dimension gives an empty subset, and on an
\* empty subset every view has no rows and every metric is zero.
C4_EmptySelectionIsZero ==
    \A s \in sessions :
        calc[s].valid =>
            /\ ({} \in {input[s].categories, input[s].regions,
                        input[s].statuses}
                  => calc[s].value = <<>>)
            /\ (calc[s].value = <<>> =>
                  \A o \in Metrics \cup Views :
                      Rendered(s, o) => out[s][o] = <<EmptyForm(o)>>)

\* Everything rendered with no category selected.
C4_Witness ==
    \E s \in sessions :
        /\ input[s].categories = {}
        /\ input[s].regions # {}
        /\ input[s].statuses # {}
        /\ AllRendered(s)

\* C5: the revenue column of the category summary and that of the region
\* summary both add up to the total-revenue metric.
C5_CrossViewRevenue ==
    \A s \in sessions :
        (/\ Rendered(s, "category_summary_table")
         /\ Rendered(s, "region_table")
         /\ Rendered(s, "total_revenue")) =>
            /\ SumOver(out[s]["category_summary_table"][1], "Revenue")
                   = out[s]["total_revenue"][1]
            /\ SumOver(out[s]["region_table"][1], "Revenue")
                   = out[s]["total_revenue"][1]

\* Two categories and two regions, split differently, under a proper filter.
C5_Witness ==
    \E s \in sessions :
        /\ AllRendered(s)
        /\ Len(out[s]["category_summary_table"][1]) = 2
        /\ Len(out[s]["region_table"][1]) = 2
        /\ out[s]["category_summary_table"][1][1].Revenue
              # out[s]["region_table"][1][1].Revenue
        /\ Len(calc[s].value) < Len(DF)

Days(range) == {d \in MIN_DATE..MAX_DATE : range[1] <= d /\ d <= range[2]}

\* The specifications the inputs can hold that inp is a widening of.
Narrowings(inp) ==
    {[date_range |-> r, categories |-> c, regions |-> g, statuses |-> t,
      table_rows |-> inp.table_rows] :
        r \in {x \in Choices("date_range") :
                  Days(x) \subseteq Days(inp.date_range)},
        c \in SUBSET inp.categories, g \in SUBSET inp.regions,
        t \in SUBSET inp.statuses}

\* C7: the transaction count shown for a specification is at least the
\* count of every specification it widens.
C7_Monotone ==
    \A s \in sessions :
        Rendered(s, "n_transactions") =>
            \A narrow \in Narrowings(input[s]) :
                n_transactions(FilteredDf(DF, narrow))
                    <= out[s]["n_transactions"][1]

\* A count shown that is strictly above that of a non-empty narrowing.
C7_Witness ==
    \E s \in sessions :
        /\ Rendered(s, "n_transactions")
        /\ FilterSpecOf(input[s]) # FilterSpecOf(InitialInput)
        /\ \E narrow \in Narrowings(input[s]) :
              /\ 0 < Len(FilteredDf(DF, narrow))
              /\ Len(FilteredDf(DF, narrow)) < out[s]["n_transactions"][1]

TopDaysAsSpecified(df, view) ==
    LET dates == Column(df, "date")
        revenue(d) == SumOver(RowsOf(df, "date", d), "total")
        shown == {view[i].Date : i \in 1..Len(view)}
    IN  /\ Len(view) = Min(TopDaysLimit, Cardinality(dates))
        /\ shown \subseteq dates
        /\ \A i \in 1..Len(view) :
              /\ view[i].Transactions = Len(RowsOf(df, "date", view[i].Date))
              /\ view[i].Revenue = revenue(view[i].Date)
        /\ \A i, j \in 1..Len(view) :
              i < j => \/ view[i].Revenue > view[j].Revenue
                       \/ /\ view[i].Revenue = view[j].Revenue
                          /\ view[i].Date < view[j].Date
        /\ \A d \in dates \ shown : \A i \in 1..Len(view) :
              \/ view[i].Revenue > revenue(d)
              \/ /\ view[i].Revenue = revenue(d)
                 /\ view[i].Date < d

\* C9: the top-days view has one row per date (count, sum of total), by
\* revenue descending, dates of equal revenue in ascending order, cut to
\* the first ten.
C9_TopDaysTiesByDate ==
    \A s \in sessions :
        Rendered(s, "top_days_table") =>
            TopDaysAsSpecified(FilteredDf(DF, input[s]),
                               out[s]["top_days_table"][1])

OthersUntouched ==
    \A s \in sessions :
        input'[s] # input[s] =>
            \A t \in sessions \ {s} :
                /\ input'[t] = input[t]
                /\ calc'[t] = calc[t]
                /\ out'[t] = out[t]

\* C10: no step changes DF; a step that changes one session's inputs leaves
\* every other session's inputs, cached subset and outputs as they were;
\* what a session shows is a function of DF and its own inputs.
C10_SessionsIsolated ==
    /\ [][DF' = DF /\ OthersUntouched]_vars
    /\ [](\A s \in sessions :
            /\ OutputsCurrent(s)
            /\ calc[s].valid => calc[s].value = FilteredDf(DF, input[s]))

\* Two sessions, both rendered, on different specifications and counts.
C10_Witness ==
    \E s, t \in sessions :
        /\ s # t
        /\ AllRendered(s) /\ AllRendered(t)
        /\ FilterSpecOf(input[s]) # FilterSpecOf(input[t])
        /\ out[s]["n_transactions"] # out[t]["n_transactions"]
        /\ FilterSpecOf(input[s]) # FilterSpecOf(InitialInput)

(***************************************************************************)
(* generate_dataset.py.  Prices, subtotals, taxes and totals are in cents, *)
(* discounts in percent, tax rates in units of 1/10000.  Every column is   *)
(* sampled or computed for all num_rows rows at once, elementwise; `row`   *)
(* follows the fields of one of the rows (any one: Init picks its index)   *)
(* and is <<>> when the table has no rows.                                 *)
(***************************************************************************)
\* np.round(x, 2) of the float n/d (in cents): the nearest cent; at an exact
\* decimal tie the binary float lies just above or below it, so either
\* neighbour can result.
RoundOutcomes(n, d) ==
    IF (2 * (n % d)) = d THEN {n \div d, (n \div d) + 1}
    ELSE {RoundHalfEven(n, d)}

\* np.round(exponential(50) + 0.99, 2): at least 99 cents; three are tried.
UnitPrices == {99, 105, 130}

\* rng.integers(1, 21)
Quantities == 1..20

\* rng.choice([0, 0, 0, 0.05, 0.1, 0.15, 0.2, 0.25])
Discounts == {0, 5, 10, 15, 20, 25}

\* rng.choice([0.0, 0.05, 0.06, 0.07, 0.075, 0.08, 0.0825, 0.1])
TaxRates == {0, 500, 600, 700, 750, 800, 825, 1000}

\* subtotals = np.round(unit_prices * quantities * (1 - discounts), 2)
Subtotals(unit_price, quantity, discount) ==
    RoundOutcomes(unit_price * quantity * (100 - discount), 100)

\* taxes = np.round(subtotals * tax_rates, 2)
Taxes(subtotal, tax_rate) == RoundOutcomes(subtotal * tax_rate, 10000)

\* Faulty variant: the tax left out of the total.
TotalsNoTax(subtotal, tax) == subtotal

\* totals = np.round(subtotals + taxes, 2): a sum of two cent amounts
Totals(subtotal, tax) == subtotal + tax

\* out_path.parent.mkdir(parents=True, exist_ok=True): the first thing main
\* does after parsing its arguments.
Mkdir ==
    /\ pc = "mkdir"
    /\ fs' = fs \cup {"dir"}
    /\ pc' = "timestamps"
    /\ UNCHANGED <<num_rows, draws, row, exit_code, appVars>>

\* rng.integers(0, total_seconds, size=num_rows) with a negative size raises
\* ValueError; nothing catches it and the interpreter exits with status 1.
RaiseNegativeSize ==
    /\ pc = "timestamps"
    /\ num_rows < 0
    /\ pc' = "exited"
    /\ exit_code' = 1
    /\ UNCHANGED <<num_rows, fs, draws, row, appVars>>

\* random_seconds = rng.integers(0, total_seconds, size=num_rows)
SampleTimestamps ==
    /\ pc = "timestamps"
    /\ num_rows >= 0
    /\ draws' = draws + num_rows
    /\ pc' = "unit_prices"
    /\ UNCHANGED <<num_rows, fs, row, exit_code, appVars>>

SampleUnitPrices ==
    /\ pc = "unit_prices"
    /\ IF row = <<>> THEN row' = row
       ELSE \E v \in UnitPrices : row' = [row EXCEPT !.unit_price = v]
    /\ draws' = draws + num_rows
    /\ pc' = "quantities"
    /\ UNCHANGED <<num_rows, fs, exit_code, appVars>>

SampleQuantities ==
    /\ pc = "quantities"
    /\ IF row = <<>> THEN row' = row
       ELSE \E v \in Quantities : row' = [row EXCEPT !.quantity = v]
    /\ draws' = draws + num_rows
    /\ pc' = "discounts"
    /\ UNCHANGED <<num_rows, fs, exit_code, appVars>>

SampleDiscounts ==
    /\ pc = "discounts"
    /\ IF row = <<>> THEN row' = row
       ELSE \E v \in Discounts : row' = [row EXCEPT !.discount = v]
    /\ draws' = draws + num_rows
    /\ pc' = "subtotals"
    /\ UNCHANGED <<num_rows, fs, exit_code, appVars>>

ComputeSubtotals ==
    /\ pc = "subtotals"
    /\ IF row = <<>> THEN row' = row
       ELSE \E v \in Subtotals(row.unit_price, row.quantity, row.discount) :
                row' = [row EXCEPT !.subtotal = v]
    /\ pc' = "tax_rates"
    /\ UNCHANGED <<num_rows, fs, draws, exit_code, appVars>>

SampleTaxRates ==
    /\ pc = "tax_rates"
    /\ IF row = <<>> THEN row' = row
       ELSE \E v \in TaxRates : row' = [row EXCEPT !.tax_rate = v]
    /\ draws' = draws + num_rows
    /\ pc' = "taxes"
    /\ UNCHANGED <<num_rows, fs, exit_code, appVars>>

ComputeTaxes ==
    /\ pc = "taxes"
    /\ IF row = <<>> THEN row' = row
       ELSE \E v \in Taxes(row.subtotal, row.tax_rate) :
                row' = [row EXCEPT !.tax = v]
    /\ pc' = "totals"
    /\ UNCHANGED <<num_rows, fs, draws, exit_code, appVars>>

ComputeTotals ==
    /\ pc = "totals"
    /\ IF row = <<>> THEN row' = row
       ELSE row' = [row EXCEPT !.total = Totals(row.subtotal, row.tax)]
    /\ pc' = "frame"
    /\ UNCHANGED <<num_rows, fs, draws, exit_code, appVars>>

\* pd.DataFrame({...}): the nine remaining sampled columns (customer_id,
\* category, product_id, payment_method, region, city, status, is_member,
\* rating: num_rows values each; transaction_id is an arange), then
\* generate_dataset returns the frame, of num_rows rows, possibly none.
BuildFrame ==
    /\ pc = "frame"
    /\ draws' = draws + 9 * num_rows
    /\ pc' = "write"
    /\ UNCHANGED <<num_rows, fs, row, exit_code, appVars>>

\* df.to_csv(out_path, index=False), the diagnostics, and the normal exit.
WriteCsv ==
    /\ pc = "write"
    /\ fs' = fs \cup {"csv"}
    /\ pc' = "exited"
    /\ exit_code' = 0
    /\ UNCHANGED <<num_rows, draws, row, appVars>>

\* argparse has parsed --rows (type=int: any integer) and nothing exists yet.
InitGen ==
    /\ pc = "mkdir"
    /\ num_rows \in (0 - MaxGenRows)..MaxGenRows
    /\ fs = {}
    /\ draws = 0
    /\ IF num_rows <= 0 THEN row = <<>>
       ELSE \E i \in 1..num_rows :
              row = [transaction_id |-> i, unit_price |-> 0, quantity |-> 0,
                     discount |-> 0, subtotal |-> 0, tax_rate |-> 0,
                     tax |-> 0, total |-> 0]
    /\ exit_code = 0
    /\ AppIdle

NextGen ==
    \/ Mkdir
    \/ RaiseNegativeSize
    \/ SampleTimestamps
    \/ SampleUnitPrices
    \/ SampleQuantities
    \/ SampleDiscounts
    \/ ComputeSubtotals
    \/ SampleTaxRates
    \/ ComputeTaxes
    \/ ComputeTotals
    \/ BuildFrame
    \/ WriteCsv

SpecGen == InitGen /\ [][NextGen]_vars

\* C6: a row count of zero or less never gets as far as creating anything
\* or drawing a value, and the generator ends with a non-zero status.
C6_NonPositiveRejected ==
    (num_rows <= 0 /\ pc = "exited") =>
        /\ exit_code # 0
        /\ fs = {}
        /\ draws = 0

\* C8: once the totals are computed, the row's subtotal, tax and total are
\* the stage-wise roundings, and its total is within one cent of
\* round(subtotal * (1 + tax_rate), 2), whichever way that rounds a tie.
C8_TotalWithinOneCent ==
    (row # <<>> /\ pc \in {"frame", "write", "exited"}) =>
        /\ row.quantity \in 1..20
        /\ row.subtotal \in RoundOutcomes(
               row.unit_price * row.quantity * (100 - row.discount), 100)
        /\ row.tax \in RoundOutcomes(row.subtotal * row.tax_rate, 10000)
        /\ row.total = row.subtotal + row.tax
        /\ \A r \in RoundOutcomes(row.subtotal * (10000 + row.tax_rate), 10000) :
              Abs(row.total - r) <= 1

\* A written row, discounted and taxed, whose total is a cent away from the
\* single rounding.
C8_Witness ==
    /\ row # <<>>
    /\ pc = "exited"
    /\ row.discount > 0
    /\ row.tax_rate > 0
    /\ row.quantity > 1
    /\ Abs(row.total - RoundHalfEven(row.subtotal * (10000 + row.tax_rate),
                                     10000)) = 1

====
